---- MODULE Spec2Model ----
(***************************************************************************)
(* Model of the custom translation source of sc-translator:                *)
(*   - the web-page translate operation (WebpageTranslateFn) with the      *)
(*     fragment filter and the response reconciler                         *)
(*     (src/public/translate/custom/translate.ts, lines 273-455), and the  *)
(*     variant kept in src/public/web-page-translate/custom/translate.ts   *)
(*     (lines 282-405) that returns the response items as a flat list;     *)
(*   - the single-text translate operation with its language fallback      *)
(*     (src/public/translate/custom/translate.ts, lines 31-190).           *)
(* Texts are sequences of one-character strings, so that trimming and the  *)
(* letter test of the filter are computed and not assumed.                 *)
(***************************************************************************)
EXTENDS Integers, Sequences, FiniteSets, TLC

\* ------------------------------------------------------------------------
\* Bounds of the model
\* ------------------------------------------------------------------------
MaxGroups == 2

MaxRow == 2

MaxResp == 3

MaxLen == 3

MaxUrlPieces == 4

MaxMessages == 2

\* ------------------------------------------------------------------------
\* Texts
\* ------------------------------------------------------------------------
\* characters matched by \s in String.prototype.trim
Whitespace == {" "}

\* characters: " " is a space, ":" stands for punctuation and digits, "a"
\* and "t" are ASCII letters, "zhong" is the ideograph U+4E2D and "ya" the
\* Cyrillic letter U+044F
\* characters matched by /[a-zA-Z\u4e00-\u9fa5]/
LetterOrCJK == {"a", "t", "zhong"}

\* letters of any script
Letters == {"a", "t", "ya"}

\* ideographs
Ideographs == {"zhong"}

\* fragment contents offered to the operation: empty, a padded colon
\* (excluded by the filter, and changed by trim) and a padded letter (sent,
\* trimmed)
Contents == { <<>>, <<" ", ":", " ">>, <<" ", "a">> }

\* the translation carried by the j-th item of a response: items of one
\* response carry pairwise different texts
TranslationAt(j) == <<"t", ToString(j)>>

RECURSIVE TrimStart(_)
TrimStart(s) ==
    IF s # <<>> /\ Head(s) \in Whitespace THEN TrimStart(Tail(s)) ELSE s

RECURSIVE TrimEnd(_)
TrimEnd(s) ==
    IF s # <<>> /\ s[Len(s)] \in Whitespace
    THEN TrimEnd(SubSeq(s, 1, Len(s) - 1)) ELSE s

\* String.prototype.trim
Trim(s) == TrimEnd(TrimStart(s))

\* /[a-zA-Z一-龥]/.test(s)
HasLetterOrCJK(s) == \E i \in 1..Len(s) : s[i] \in LetterOrCJK

\* variant: the id names the row, not the fragment
IdOfRow(index) == "0-0"

\* `0-${index}`
IdOf(index) == "0-" \o ToString(index)

\* paragraphsArray.flat()
RECURSIVE Flat(_)
Flat(paragraphs) ==
    IF paragraphs = <<>> THEN <<>>
    ELSE Head(paragraphs) \o Flat(Tail(paragraphs))

\* ------------------------------------------------------------------------
\* Configuration, languages, errors
\* ------------------------------------------------------------------------
\* error codes imported from constants/errorCodes and translate/error-codes
SOURCE_ERROR == "SOURCE_ERROR"

RESULT_ERROR == "RESULT_ERROR"

LANGUAGE_NOT_SOPPORTED == "LANGUAGE_NOT_SOPPORTED"

\* getError(code, message): the typed error object
getError(code, message) == [code |-> code, error |-> message]

\* a JSON number and a JSON string of a request body
JsonNumber(n) == [type |-> "number", value |-> n]

JsonString(chars) == [type |-> "string", value |-> chars]

\* new Error(message): carries no code
PlainError(message) == [code |-> "", error |-> message]

\* translate/google/lang-code: application language code -> provider code
langCode == [auto |-> "auto", en |-> "en-US", fr |-> "fr-FR"]

\* langCode[lang] as JSON.stringify sees it: undefined for a language that
\* is not in the table
LangCodeOf(lang) == IF lang \in DOMAIN langCode THEN langCode[lang] ELSE "undefined"

\* variant: every language passes for supported
InLangCodeAny(lang) == TRUE

\* lang in langCode
InLangCode(lang) == lang \in DOMAIN langCode

\* A url is the sequence of its pieces: the part before any '?' is one
\* piece, and '?', '&', '=', a key word, a digit and the escape %22 are one
\* piece each
\* urlString.indexOf(piece): the first position of the piece, 0 for none
IndexOf(s, piece) ==
    IF \E i \in 1..Len(s) : s[i] = piece
    THEN CHOOSE i \in 1..Len(s) : s[i] = piece /\ \A j \in 1..(i - 1) : s[j] # piece
    ELSE 0

\* s.split(separator): the parts between the separators, one empty part for
\* an empty s
RECURSIVE Split(_, _)
Split(s, separator) ==
    IF IndexOf(s, separator) = 0 THEN <<s>>
    ELSE <<SubSeq(s, 1, IndexOf(s, separator) - 1)>>
         \o Split(SubSeq(s, IndexOf(s, separator) + 1, Len(s)), separator)

\* decodeURIComponent, piece by piece: %22 is the double quote
DecodeURIComponent(s) == [i \in 1..Len(s) |-> IF s[i] = "%22" THEN "\"" ELSE s[i]]

\* the pieces of a key joined into the property name
RECURSIVE Joined(_)
Joined(s) == IF s = <<>> THEN "" ELSE Head(s) \o Joined(Tail(s))

\* const [key, value] = pair.split('='): the first two parts, value
\* undefined ('' after value || '') when there is no '='
KeyOf(pair) == Split(pair, "=")[1]

ValueOf(pair) == IF Len(Split(pair, "=")) >= 2 THEN Split(pair, "=")[2] ELSE <<>>

\* if (key)
HasKey(pair) == KeyOf(pair) # <<>>

\* the assignments extractedParams[rawKey] = decodeURIComponent(rawValue) of
\* the forEach over paramsString.split('&'), in order
RECURSIVE ExtractedPairs(_)
ExtractedPairs(pairs) ==
    IF pairs = <<>> THEN <<>>
    ELSE (IF HasKey(Head(pairs))
          THEN << <<Joined(DecodeURIComponent(KeyOf(Head(pairs)))),
                    DecodeURIComponent(ValueOf(Head(pairs)))>> >>
          ELSE <<>>)
         \o ExtractedPairs(Tail(pairs))

\* baseUrl and the extracted pairs of a url: all of it is the base when
\* there is no '?'
UrlParts(url) ==
    IF IndexOf(url, "?") = 0
    THEN [base |-> Joined(url), query |-> <<>>]
    ELSE [base |-> Joined(SubSeq(url, 1, IndexOf(url, "?") - 1)),
          query |-> ExtractedPairs(
                        Split(SubSeq(url, IndexOf(url, "?") + 1, Len(url)), "&"))]

BaseUrl == "https://api.example/translate"

\* the url of the configured entry
EndpointUrl ==
    <<BaseUrl, "?", "key", "=", "tok", "&", "tc", "=", "7", "&", "pbc", "=", "2">>

\* customWebpageTranslateSourceList / customTranslateSourceList: an entry
\* with its url taken apart at '?'
CustomSourceList == { [source |-> "custom1", url |-> UrlParts(EndpointUrl)] }

Sources == {"custom1", "absent"}

\* variant: an unknown source falls back to the configured entries
FindSourceOrAny(source) ==
    IF \E c \in CustomSourceList : c.source = source
    THEN { c \in CustomSourceList : c.source = source }
    ELSE CustomSourceList

\* customTranslateSourceList.find(value => value.source === source)
FindSource(source) == { c \in CustomSourceList : c.source = source }

\* extractedParams[key] after the forEach over paramsString.split('&'):
\* the value of the last pair with that key, <<>> (falsy) when there is none
RECURSIVE ExtractedParam(_, _)
ExtractedParam(query, key) ==
    IF query = <<>> THEN <<>>
    ELSE IF query[Len(query)][1] = key THEN query[Len(query)][2]
    ELSE ExtractedParam(SubSeq(query, 1, Len(query) - 1), key)

DigitValue(c) ==
    CASE c = "0" -> 0 [] c = "1" -> 1 [] c = "2" -> 2 [] c = "3" -> 3
      [] c = "4" -> 4 [] c = "5" -> 5 [] c = "6" -> 6 [] c = "7" -> 7
      [] c = "8" -> 8 [] c = "9" -> 9 [] OTHER -> -1

\* parseInt(raw.replace(/"/g, ''), 10) || 0: the leading decimal digits,
\* 0 when there are none (NaN)
RECURSIVE ParseDigits(_, _)
ParseDigits(raw, acc) ==
    IF raw = <<>> \/ DigitValue(Head(raw)) < 0 THEN acc
    ELSE ParseDigits(Tail(raw), 10 * acc + DigitValue(Head(raw)))

ParseCode(raw) == ParseDigits(SelectSeq(raw, LAMBDA c : c # "\""), 0)

\* the Authorization header: 'Bearer ' is prefixed unless already there
AuthorizationHeaderValue(token) ==
    IF token # <<>> /\ Head(token) = "Bearer " THEN token
    ELSE <<"Bearer ">> \o token

\* ------------------------------------------------------------------------
\* Web-page translate: fragment filter, batch, reconciliation
\* ------------------------------------------------------------------------
\* isPurePunctuationOrShort of the filter loop
IsPurePunctuationOrShort(cleanedContent) ==
    /\ Len(cleanedContent) > 0
    /\ ~HasLetterOrCJK(cleanedContent)
    /\ Len(cleanedContent) < 3

\* variant: every fragment is pushed to the batch
FilterTextsAll(flattenedParagraphs, index) ==
    [ k \in 1..(Len(flattenedParagraphs) - index) |->
        [id |-> IdOf(index + k - 1),
         content |-> Trim(flattenedParagraphs[index + k])] ]

\* the forEach over flattenedParagraphs, from index on: the entries pushed
\* to textsForApi
RECURSIVE FilterTexts(_, _)
FilterTexts(flattenedParagraphs, index) ==
    IF index >= Len(flattenedParagraphs) THEN <<>>
    ELSE LET cleanedContent == Trim(flattenedParagraphs[index + 1])
         IN  (IF Len(cleanedContent) = 0 \/ IsPurePunctuationOrShort(cleanedContent)
              THEN <<>>
              ELSE << [id |-> IdOf(index), content |-> cleanedContent] >>)
             \o FilterTexts(flattenedParagraphs, index + 1)

\* the same loop: the indices pushed to validContentIndices
RECURSIVE FilterIndices(_, _)
FilterIndices(flattenedParagraphs, index) ==
    IF index >= Len(flattenedParagraphs) THEN <<>>
    ELSE LET cleanedContent == Trim(flattenedParagraphs[index + 1])
         IN  (IF Len(cleanedContent) = 0 \/ IsPurePunctuationOrShort(cleanedContent)
              THEN <<>>
              ELSE << index >>)
             \o FilterIndices(flattenedParagraphs, index + 1)

Includes(seq, x) == \E k \in 1..Len(seq) : seq[k] = x

\* rawResultArray.map(item => (item && item.translation) || '')
FlatApiTranslations(rawResultArray) ==
    [ j \in 1..Len(rawResultArray) |->
        IF rawResultArray[j].isNull THEN <<>> ELSE rawResultArray[j].translation ]

\* the loop over the original indices i..length-1 with the running apiIndex;
\* reading flatApiTranslations past its end gives undefined
RECURSIVE FillFrom(_, _, _, _, _)
FillFrom(flattenedParagraphs, indices, flatApi, i, apiIndex) ==
    IF i >= Len(flattenedParagraphs) THEN <<>>
    ELSE IF Includes(indices, i)
         THEN << (IF apiIndex + 1 <= Len(flatApi) THEN flatApi[apiIndex + 1]
                  ELSE <<"undefined">>) >>
              \o FillFrom(flattenedParagraphs, indices, flatApi, i + 1, apiIndex + 1)
         ELSE << flattenedParagraphs[i + 1] >>
              \o FillFrom(flattenedParagraphs, indices, flatApi, i + 1, apiIndex)

\* variant: the pass-through content is written trimmed
FullFlatTranslationsTrimmed(flattenedParagraphs, indices, flatApi) ==
    FillFrom([k \in 1..Len(flattenedParagraphs) |-> Trim(flattenedParagraphs[k])],
             indices, flatApi, 0, 0)

FullFlatTranslations(flattenedParagraphs, indices, flatApi) ==
    FillFrom(flattenedParagraphs, indices, flatApi, 0, 0)

\* paragraphsArray.map(row => ...) from row r on, with the running flatIndex
RECURSIVE NestFrom(_, _, _, _)
NestFrom(paragraphsArray, fullFlat, r, flatIndex) ==
    IF r > Len(paragraphsArray) THEN <<>>
    ELSE LET row == paragraphsArray[r]
             translationsForRow ==
                 [ i \in 1..Len(row) |->
                     IF flatIndex + i - 1 < Len(fullFlat)
                     THEN fullFlat[flatIndex + i] ELSE <<>> ]
         IN  << [translations |-> translationsForRow] >>
             \o NestFrom(paragraphsArray, fullFlat, r + 1, flatIndex + Len(row))

FinalResult(paragraphsArray, fullFlat) == NestFrom(paragraphsArray, fullFlat, 1, 0)

\* checkResultFromCustomWebpageTranslatSource({ result }): whether it may
\* return normally (TRUE) or throw (FALSE).  A well-typed result passes; for
\* another value the validator may reject it or, when disabled as the
\* single-text one is, let it through.
CheckResultOutcomes(wellTyped) == IF wellTyped THEN {TRUE} ELSE BOOLEAN

\* ------------------------------------------------------------------------
\* The transport's answers to a web-page batch
\* ------------------------------------------------------------------------
NullItem == [isNull |-> TRUE]

UnknownId == "9-9"

\* one response item: null, or an id (a sent one or an unknown one) with
\* the translation of its slot
ItemChoices(batch) == { batch[k].id : k \in 1..Len(batch) } \cup {UnknownId, "null"}

ItemSeqs(batch) ==
    UNION { { [ j \in 1..n |->
                 IF c[j] = "null" THEN NullItem
                 ELSE [isNull |-> FALSE, id |-> c[j], translation |-> TranslationAt(j)] ]
              : c \in [1..n -> ItemChoices(batch)] }
            : n \in 0..MaxResp }

\* response.data of the proxy: null when the body was not JSON
NullBody == [isNull |-> TRUE]

ErrorBodies ==
    { [isNull |-> FALSE, code |-> c, message |-> m, hasData |-> FALSE]
        : c \in {"E429", ""}, m \in {"quota", ""} }
    \cup { [isNull |-> FALSE, code |-> "S000000", message |-> "", hasData |-> FALSE] }

SuccessBody(texts, hasTexts) ==
    [isNull |-> FALSE, code |-> "S000000", message |-> "", hasData |-> TRUE,
     hasTexts |-> hasTexts, texts |-> texts,
     sourceLanguage |-> "en", targetLanguage |-> "fr"]

\* what proxyFetchData settles with: a rejection (chrome.runtime.lastError
\* or response.error) or the MockResponse {ok, status, json}
ProxyResponses(batch) ==
    { [kind |-> "reject", error |-> e] : e \in {"messaging", "fetch"} }
    \cup { [kind |-> "resolve", ok |-> FALSE, status |-> 500, body |-> b]
             : b \in {NullBody, SuccessBody(<<>>, TRUE)} }
    \cup { [kind |-> "resolve", ok |-> TRUE, status |-> 200, body |-> b]
             : b \in {NullBody, SuccessBody(<<>>, FALSE)} \cup ErrorBodies }
    \cup { [kind |-> "resolve", ok |-> TRUE, status |-> 200, body |-> SuccessBody(t, TRUE)]
             : t \in ItemSeqs(batch) }

\* ------------------------------------------------------------------------
\* State
\* ------------------------------------------------------------------------
VARIABLES
    wpc,                  \* web-page call: "idle", "awaiting", "done"
    impl,                 \* which translate was called: "reconcile" or "flat"
    paragraphs,           \* argument: the PageText
    targetLanguage,       \* argument
    source,               \* argument
    textsForApi,          \* the batch
    validContentIndices,  \* original indices of the batch entries
    wsent,                \* requests handed to the transport, in order
    wres,                 \* what the transport settled with
    wout,                 \* how the call ended
    wrerun,               \* what a second run of the try block ends with
    tpc,                  \* single-text call: "idle", "await1", "await2", "done"
    params,               \* arguments: text, from, to, preferredLanguage,
                          \*   secondPreferredLanguage, source
    from,                 \* the local from, after its defaulting
    to,                   \* the local to, after its defaulting and the fallback
    tsent,                \* requests handed to fetchData, in order
    tinflight,            \* requests handed to fetchData and not yet settled
    tres,                 \* what fetchData settled with, in order
    tout,                 \* how the call ended
    urlString,            \* customTranslateSource.url, in pieces
    bmsg,                 \* background listener: the messages and how far
                          \*   the handling of each has come
    bsent,                \* the values each message's sendResponse was called with
    collection            \* the DB_STORE_COLLECTION store of scIndexedDB

tvars == <<tpc, params, from, to, tsent, tinflight, tres, tout>>

wvars == <<wpc, impl, paragraphs, targetLanguage, source, textsForApi,
           validContentIndices, wsent, wres, wout, wrerun>>

Rows == UNION { [1..n -> Contents] : n \in 0..MaxRow }

Pages == UNION { [1..g -> Rows] : g \in 0..MaxGroups }

TargetLanguages == {"en", "xx"}

NoResponse == [kind |-> "none"]

NoOutcome == [status |-> "none"]

Returned(value) == [status |-> "returned", value |-> value]

Thrown(error) == [status |-> "thrown", error |-> error]

WebInit ==
    /\ wpc = "idle"
    /\ impl = "none"
    /\ paragraphs = <<>>
    /\ targetLanguage = ""
    /\ source = ""
    /\ textsForApi = <<>>
    /\ validContentIndices = <<>>
    /\ wsent = <<>>
    /\ wres = NoResponse
    /\ wout = NoOutcome
    /\ wrerun = NoOutcome

NoParams == [source |-> ""]

TextInit ==
    /\ tpc = "idle"
    /\ params = NoParams
    /\ from = ""
    /\ to = ""
    /\ tsent = <<>>
    /\ tinflight = 0
    /\ tres = <<>>
    /\ tout = NoOutcome

bvars == <<bmsg, bsent, collection>>

vars == <<wvars, tvars, urlString, bvars>>

MessageIds == 1..MaxMessages

NoMessage ==
    [type |-> "none", text |-> <<>>, translations |-> <<>>, pc |-> "none",
     returned |-> "none", value |-> [found |-> FALSE], fetched |-> [status |-> 0]]

\* the trimmed texts that can key an entry of the store
CollectionKeys == { <<"a">> }

NoEntry == [found |-> FALSE]

BackgroundInit ==
    /\ bmsg = [id \in MessageIds |-> NoMessage]
    /\ bsent = [id \in MessageIds |-> <<>>]
    /\ collection = [key \in CollectionKeys |-> NoEntry]

Init == WebInit /\ TextInit /\ urlString = EndpointUrl /\ BackgroundInit

\* variant: the texts list of the body is one list that both operations of
\* the file push to
WebRequestSharedTexts(config, lang, texts) ==
    [url |-> config.url.base,
     method |-> "POST",
     authorization |-> AuthorizationHeaderValue(ExtractedParam(config.url.query, "key")),
     body |-> [texts |-> (IF tsent # <<>> THEN tsent[1].body.texts ELSE <<>>) \o texts,
               targetLanguage |-> LangCodeOf(lang),
               translatorCode |->
                   JsonNumber(ParseCode(ExtractedParam(config.url.query, "tc"))),
               promptBuilderCode |->
                   JsonNumber(ParseCode(ExtractedParam(config.url.query, "pbc")))]]

\* the POST handed to proxyFetchData
WebRequest(config, lang, texts) ==
    [url |-> config.url.base,
     method |-> "POST",
     authorization |-> AuthorizationHeaderValue(ExtractedParam(config.url.query, "key")),
     body |-> [texts |-> texts,
               targetLanguage |-> LangCodeOf(lang),
               translatorCode |->
                   JsonNumber(ParseCode(ExtractedParam(config.url.query, "tc"))),
               promptBuilderCode |->
                   JsonNumber(ParseCode(ExtractedParam(config.url.query, "pbc")))]]

\* translate up to the await of proxyFetchData; batchOf and indicesOf are
\* the batch construction of the variant
WebpageCall(variant, p, lang, src, texts, indices) ==
    /\ wpc = "idle"
    /\ UNCHANGED <<tvars, urlString, bvars>>
    /\ impl' = variant
    /\ paragraphs' = p
    /\ targetLanguage' = lang
    /\ source' = src
    /\ wres' = wres
    /\ wrerun' = wrerun
    /\ IF FindSource(src) = {}
       THEN /\ wout' = Thrown(getError(SOURCE_ERROR, <<>>))
            /\ wpc' = "done"
            /\ UNCHANGED <<textsForApi, validContentIndices, wsent>>
       ELSE IF ~InLangCode(lang)
       THEN /\ wout' = Thrown(getError(LANGUAGE_NOT_SOPPORTED, <<>>))
            /\ wpc' = "done"
            /\ UNCHANGED <<textsForApi, validContentIndices, wsent>>
       ELSE /\ textsForApi' = texts
            /\ validContentIndices' = indices
            /\ wsent' = Append(wsent,
                   WebRequest(CHOOSE c \in FindSource(src) : TRUE, lang, texts))
            /\ wpc' = "awaiting"
            /\ wout' = wout

\* src/public/translate/custom/translate.ts: translate, lines 273-369
WebpageTranslate ==
    \E p \in Pages, lang \in TargetLanguages, src \in Sources :
        WebpageCall("reconcile", p, lang, src,
                    FilterTexts(Flat(p), 0), FilterIndices(Flat(p), 0))

\* paragraphsArray.flat().map((content, index) => ({id, content: content || ''}))
UnfilteredTexts(flattenedParagraphs) ==
    [ k \in 1..Len(flattenedParagraphs) |->
        [id |-> IdOf(k - 1), content |-> flattenedParagraphs[k]] ]

\* src/public/web-page-translate/custom/translate.ts: translate, lines 282-361
WebpageTranslateFlat ==
    \E p \in Pages, lang \in TargetLanguages, src \in Sources :
        WebpageCall("flat", p, lang, src, UnfilteredTexts(Flat(p)), <<>>)

\* the catch block: an error with a code is rethrown, any other one is
\* wrapped into RESULT_ERROR with its message
Catch(outcome) ==
    IF outcome.status = "thrown" /\ outcome.error.code = ""
    THEN Thrown(getError(RESULT_ERROR, outcome.error.error))
    ELSE outcome

\* variant: the provider's code is not carried over
ProviderErrorCodeFixed(code) == RESULT_ERROR

\* responseData.code || RESULT_ERROR
ProviderErrorCode(code) == IF code # "" THEN code ELSE RESULT_ERROR

\* variant: the status of the proxied response is not looked at
NotOkIgnored(response) == FALSE

\* !res.ok
NotOk(response) == ~response.ok

\* the response checks both variants make before they read data.texts:
\* the outcome they end the call with, or NoOutcome when they pass; the
\* message texts stand for the literals of lines 374-389
ResponseChecks(response) ==
    IF NotOk(response)
    THEN Thrown(PlainError(<<"Proxy request failed with status: ", response.status>>))
    ELSE IF response.body.isNull
    THEN Thrown(PlainError(<<"TypeError: cannot read properties of null">>))
    ELSE IF response.body.code # "S000000" \/ ~response.body.hasData
    THEN Thrown(getError(
             ProviderErrorCode(response.body.code),
             <<"webpage translate failed: ",
               IF response.body.message # "" THEN response.body.message
               ELSE "non-success status code">>))
    ELSE IF ~response.body.hasTexts
    THEN Thrown(getError(RESULT_ERROR, <<"response lacks the texts field">>))
    ELSE NoOutcome

\* variant: only a response with too few items is refused
CountMismatchTooFew(rawResultArray, texts) == Len(rawResultArray) < Len(texts)

\* rawResultArray.length !== textsForApi.length
CountMismatch(rawResultArray, texts) == Len(rawResultArray) # Len(texts)

\* the try block of the reconciling translate, lines 371-443
ReconcileBody(response, p, texts, indices, checkPasses) ==
    IF ResponseChecks(response) # NoOutcome THEN ResponseChecks(response)
    ELSE LET rawResultArray == response.body.texts IN
         IF CountMismatch(rawResultArray, texts)
         THEN Thrown(getError(RESULT_ERROR,
                  <<"count mismatch", Len(rawResultArray), Len(texts)>>))
         ELSE LET finalResult ==
                      FinalResult(p, FullFlatTranslations(Flat(p), indices,
                                         FlatApiTranslations(rawResultArray)))
              IN  IF checkPasses THEN Returned(finalResult)
                  ELSE Thrown(PlainError(<<"check-result">>))

\* the try block of the flat translate, lines 363-393
FlatBody(response, checkPasses) ==
    IF ResponseChecks(response) # NoOutcome THEN ResponseChecks(response)
    ELSE IF checkPasses THEN Returned(FlatApiTranslations(response.body.texts))
         ELSE Thrown(PlainError(<<"check-result">>))

\* a rejected proxyFetchData is awaited outside the try block
RejectOutcome(response) ==
    Thrown(PlainError(<<"proxy rejected: ", response.error>>))

\* variant: the fill loop takes the indices off validContentIndices as it
\* uses them
WebpageResponseConsuming ==
    /\ wpc = "awaiting"
    /\ impl = "reconcile"
    /\ \E response \in ProxyResponses(textsForApi), checkPasses \in CheckResultOutcomes(TRUE) :
          /\ wres' = response
          /\ wout' = IF response.kind = "reject" THEN RejectOutcome(response)
                     ELSE Catch(ReconcileBody(response, paragraphs, textsForApi,
                                              validContentIndices, checkPasses))
    /\ validContentIndices' = <<>>
    /\ wpc' = "done"
    /\ UNCHANGED <<impl, paragraphs, targetLanguage, source, textsForApi, wsent, wrerun>>
    /\ UNCHANGED <<tvars, urlString, bvars>>

\* src/public/translate/custom/translate.ts: translate, lines 365-454
WebpageResponse ==
    /\ wpc = "awaiting"
    /\ impl = "reconcile"
    /\ \E response \in ProxyResponses(textsForApi), checkPasses \in CheckResultOutcomes(TRUE) :
          /\ wres' = response
          /\ wout' = IF response.kind = "reject" THEN RejectOutcome(response)
                     ELSE Catch(ReconcileBody(response, paragraphs, textsForApi,
                                              validContentIndices, checkPasses))
    /\ wpc' = "done"
    /\ UNCHANGED <<impl, paragraphs, targetLanguage, source, textsForApi,
                   validContentIndices, wsent, wrerun>>
    /\ UNCHANGED <<tvars, urlString, bvars>>

\* src/public/web-page-translate/custom/translate.ts: translate, lines 357-404
WebpageResponseFlat ==
    /\ wpc = "awaiting"
    /\ impl = "flat"
    /\ \E response \in ProxyResponses(textsForApi), checkPasses \in CheckResultOutcomes(FALSE) :
          /\ wres' = response
          /\ wout' = IF response.kind = "reject" THEN RejectOutcome(response)
                     ELSE Catch(FlatBody(response, checkPasses))
    /\ wpc' = "done"
    /\ UNCHANGED <<impl, paragraphs, targetLanguage, source, textsForApi,
                   validContentIndices, wsent, wrerun>>
    /\ UNCHANGED <<tvars, urlString, bvars>>

\* src/public/translate/custom/translate.ts: lines 371-454 run once more on
\* the response, the batch and the PageText as the first run left them
ReconcileAgain ==
    /\ wpc = "done"
    /\ impl = "reconcile"
    /\ wres.kind = "resolve"
    /\ \E checkPasses \in CheckResultOutcomes(TRUE) :
          wrerun' = Catch(ReconcileBody(wres, paragraphs, textsForApi,
                                        validContentIndices, checkPasses))
    /\ wpc' = "rerun"
    /\ UNCHANGED <<impl, paragraphs, targetLanguage, source, textsForApi,
                   validContentIndices, wsent, wres, wout>>
    /\ UNCHANGED <<tvars, urlString, bvars>>

RerunNext ==
    \/ WebpageTranslate
    \/ WebpageResponse
    \/ ReconcileAgain

SpecRerun == Init /\ [][RerunNext]_vars

WebNext ==
    \/ WebpageTranslate
    \/ WebpageResponse
    \/ WebpageTranslateFlat
    \/ WebpageResponseFlat

SpecWeb == Init /\ [][WebNext]_vars

\* ------------------------------------------------------------------------
\* Single-text translate with the language fallback
\* ------------------------------------------------------------------------
\* "" stands for an argument the caller did not supply
FromChoices == {"", "en", "xx"}

ToChoices == {"", "fr", "xx"}

PreferredChoices == {"en", "fr", "xx"}

Texts == { <<"h", "i">> }

\* languages a reply may report; "" stands for a missing field
ReportedLanguages == {"", "en-US", "fr-FR"}

\* data.texts of a reply to the single text: no item, or one item whose
\* translation may be empty
ReplyTexts ==
    { <<>> } \cup { << [id |-> "0-0", translation |-> t] >>
                      : t \in { <<>>, <<"t", "1">>, <<"t", "2">> } }

\* what fetchData settles with: a rejection (connection failure or non-ok
\* status; the error it throws may or may not carry a code), a body that is
\* not JSON, or a decoded body
FetchResponses ==
    { [kind |-> "reject", error |-> e]
        : e \in { getError("CONNECTION_TIMED_OUT", <<>>), PlainError(<<"fetch failed">>) } }
    \cup { [kind |-> "resolve", json |-> FALSE] }
    \cup { [kind |-> "resolve", json |-> TRUE, code |-> c, message |-> m, hasData |-> FALSE]
             : c \in {"E429", "", "S000000"}, m \in {"quota", ""} }
    \cup { [kind |-> "resolve", json |-> TRUE, code |-> "S000000", message |-> "",
              hasData |-> TRUE,
              data |-> [sourceLanguage |-> sl, targetLanguage |-> tl, texts |-> tx]]
             : sl \in ReportedLanguages, tl \in ReportedLanguages, tx \in ReplyTexts }

\* the POST handed to fetchData for the first request, lines 83-112
TextRequest(config, lang, text) ==
    [url |-> config.url.base,
     method |-> "POST",
     authorization |-> AuthorizationHeaderValue(ExtractedParam(config.url.query, "key")),
     body |-> [targetLanguage |-> LangCodeOf(lang),
               translatorCode |-> JsonString(ExtractedParam(config.url.query, "tc")),
               promptBuilderCode |->
                   IF ExtractedParam(config.url.query, "pbc") # <<>>
                   THEN JsonString(ExtractedParam(config.url.query, "pbc"))
                   ELSE JsonNumber(0),
               texts |-> << [id |-> "0-0", content |-> text] >>]]

\* variant: the body of the second request is built anew and the codes of
\* the endpoint are left out
FallbackRequestRebuilt(request, lang) ==
    [request EXCEPT !.body.targetLanguage = LangCodeOf(lang),
                    !.body.translatorCode = JsonString(<<>>),
                    !.body.promptBuilderCode = JsonNumber(0)]

\* { ...fetchJSON, targetLanguage: langCode[to] } with the same baseUrl and
\* headers, lines 135-144
FallbackRequest(request, lang) ==
    [request EXCEPT !.body.targetLanguage = LangCodeOf(lang)]

\* variant: an explicitly supplied target language is not looked at
FallbackFiresIgnoringTo(originFrom, originTo, data, preferredLanguage, secondPreferredLanguage) ==
    /\ originFrom = ""
    /\ data.sourceLanguage = data.targetLanguage
    /\ preferredLanguage # secondPreferredLanguage

\* the condition of the second request, line 131
FallbackFires(originFrom, originTo, data, preferredLanguage, secondPreferredLanguage) ==
    /\ originFrom = ""
    /\ originTo = ""
    /\ data.sourceLanguage = data.targetLanguage
    /\ preferredLanguage # secondPreferredLanguage

\* responseData.code !== 'S000000' || !responseData.data
ProviderFailed(response) == response.code # "S000000" \/ ~response.hasData

ProviderError(response, defaultMessage) ==
    getError(ProviderErrorCode(response.code),
             <<IF response.message # "" THEN response.message ELSE defaultMessage>>)

\* lines 155-179: the result built from data, or the error when the
\* translation or the source language is missing
BuildResult(data, lang, text) ==
    IF data.texts = <<>> \/ data.texts[1].translation = <<>> \/ data.sourceLanguage = ""
    THEN Thrown(getError(RESULT_ERROR, <<"translation or source language is empty">>))
    ELSE Returned([result |-> <<data.texts[1].translation>>,
                   from |-> data.sourceLanguage,
                   to |-> lang,
                   text |-> text])

\* the catch block of the single-text translate, lines 181-189: an error
\* with a code is rethrown, any other one becomes a bare RESULT_ERROR
TextCatch(outcome) ==
    IF outcome.status = "thrown" /\ outcome.error.code = ""
    THEN Thrown(getError(RESULT_ERROR, <<>>))
    ELSE outcome

\* variant: data keeps the first reply after the second request
RetriedDataStale(firstData, secondData) == firstData

\* data = responseData.data after the second request, line 152
RetriedData(firstData, secondData) == secondData

\* variant: the request for the secondary preferred language is handed to
\* the transport together with the first one
FirstRequestsEager(config, lang, secondLang, text) ==
    << TextRequest(config, lang, text),
       FallbackRequest(TextRequest(config, lang, text), secondLang) >>

\* the requests handed to fetchData before the first await, lines 108-112
FirstRequests(config, lang, secondLang, text) ==
    << TextRequest(config, lang, text) >>

\* translate up to the await of the first fetchData, lines 31-112
TextCall(text, f, t, pl, spl, src) ==
    /\ tpc = "idle"
    /\ UNCHANGED <<wvars, urlString, bvars>>
    /\    LET nextFrom == IF f # "" THEN f ELSE "auto"
              nextTo == IF t # "" THEN t
                        ELSE IF nextFrom = pl THEN spl ELSE pl
          IN  /\ params' = [text |-> text, from |-> f, to |-> t,
                            preferredLanguage |-> pl,
                            secondPreferredLanguage |-> spl, source |-> src]
              /\ tres' = tres
              /\ IF FindSource(src) = {}
                 THEN /\ tout' = Thrown(getError(SOURCE_ERROR, <<>>))
                      /\ tpc' = "done"
                      /\ UNCHANGED <<from, to, tsent, tinflight>>
                 ELSE /\ from' = nextFrom
                      /\ to' = nextTo
                      /\ IF ~InLangCode(nextFrom) \/ ~InLangCode(nextTo)
                         THEN /\ tout' = Thrown(getError(LANGUAGE_NOT_SOPPORTED, <<>>))
                              /\ tpc' = "done"
                              /\ UNCHANGED <<tsent, tinflight>>
                         ELSE /\ tsent' = tsent \o
                                     FirstRequests(CHOOSE c \in FindSource(src) : TRUE,
                                                   nextTo, spl, text)
                              /\ tinflight' = tinflight +
                                     Len(FirstRequests(CHOOSE c \in FindSource(src) : TRUE,
                                                       nextTo, spl, text))
                              /\ tpc' = "await1"
                              /\ tout' = tout

\* src/public/translate/custom/translate.ts: translate, lines 31-112
TextTranslate ==
    \E text \in Texts, f \in FromChoices, t \in ToChoices,
       pl \in PreferredChoices, spl \in PreferredChoices, src \in Sources :
        TextCall(text, f, t, pl, spl, src)

\* src/public/translate/custom/translate.ts: translate, lines 108-189, from
\* the first fetchData settling to the second request or the end of the call
TextFirstResponse ==
    /\ tpc = "await1"
    /\ UNCHANGED <<wvars, urlString, bvars>>
    /\ UNCHANGED <<params, from>>
    /\ \E response \in FetchResponses :
          /\ tres' = Append(tres, response)
          /\ IF response.kind = "reject"
             THEN /\ tout' = Thrown(response.error)
                  /\ tpc' = "done"
                  /\ tinflight' = tinflight - 1
                  /\ UNCHANGED <<to, tsent>>
             ELSE IF ~response.json
             THEN /\ tout' = TextCatch(Thrown(PlainError(<<"SyntaxError">>)))
                  /\ tpc' = "done"
                  /\ tinflight' = tinflight - 1
                  /\ UNCHANGED <<to, tsent>>
             ELSE IF ProviderFailed(response)
             THEN /\ tout' = TextCatch(Thrown(ProviderError(response, "non-success status code")))
                  /\ tpc' = "done"
                  /\ tinflight' = tinflight - 1
                  /\ UNCHANGED <<to, tsent>>
             ELSE IF FallbackFires(params.from, params.to, response.data,
                                   params.preferredLanguage, params.secondPreferredLanguage)
             THEN /\ to' = params.secondPreferredLanguage
                  /\ tsent' = Append(tsent,
                         FallbackRequest(tsent[1], params.secondPreferredLanguage))
                  /\ tinflight' = (tinflight - 1) + 1
                  /\ tpc' = "await2"
                  /\ tout' = tout
             ELSE /\ tout' = TextCatch(BuildResult(response.data, to, params.text))
                  /\ tpc' = "done"
                  /\ tinflight' = tinflight - 1
                  /\ UNCHANGED <<to, tsent>>

\* lines 147-189 once the second fetchData has settled: how the call ends
SecondOutcome(response, firstData, lang, text) ==
    TextCatch(
        IF response.kind = "reject" THEN Thrown(response.error)
        ELSE IF ~response.json THEN Thrown(PlainError(<<"SyntaxError">>))
        ELSE IF ProviderFailed(response)
        THEN Thrown(ProviderError(response, "non-success status code (second request)"))
        ELSE BuildResult(RetriedData(firstData, response.data), lang, text))

\* variant: a second reply that again reports equal languages starts
\* another request
TextSecondResponseAgain ==
    /\ tpc = "await2"
    /\ UNCHANGED <<wvars, urlString, bvars>>
    /\ UNCHANGED <<params, from, to>>
    /\ \E response \in FetchResponses :
          /\ tres' = Append(tres, response)
          /\ IF /\ response.kind = "resolve"
                /\ response.json
                /\ ~ProviderFailed(response)
                /\ response.data.sourceLanguage = response.data.targetLanguage
                /\ Len(tsent) < 3
             THEN /\ tsent' = Append(tsent, tsent[2])
                  /\ tinflight' = tinflight
                  /\ tpc' = "await2"
                  /\ tout' = tout
             ELSE /\ tsent' = tsent
                  /\ tinflight' = tinflight - 1
                  /\ tpc' = "done"
                  /\ tout' = SecondOutcome(response, tres[1].data, to, params.text)

\* src/public/translate/custom/translate.ts: translate, lines 140-189, from
\* the second fetchData settling to the end of the call
TextSecondResponse ==
    /\ tpc = "await2"
    /\ UNCHANGED <<wvars, urlString, bvars>>
    /\ UNCHANGED <<params, from, to, tsent>>
    /\ tinflight' = tinflight - 1
    /\ tpc' = "done"
    /\ \E response \in FetchResponses :
          /\ tres' = Append(tres, response)
          /\ tout' = SecondOutcome(response, tres[1].data, to, params.text)

\* ------------------------------------------------------------------------
\* The fragment filter on its own
\* ------------------------------------------------------------------------
FilterChars == {" ", ":", "a", "zhong", "ya"}

FilterContents == UNION { [1..n -> FilterChars] : n \in 0..MaxLen }

\* rows in which a fragment of any content stands alone, before or after a
\* fragment of Contents
FilterRows ==
    { <<x>> : x \in FilterContents }
    \cup { <<x, c>> : x \in FilterContents, c \in Contents }
    \cup { <<c, x>> : x \in FilterContents, c \in Contents }

\* src/public/translate/custom/translate.ts: translate, lines 332-355, the
\* flattening and the filter loop
FilterFragments ==
    /\ wpc = "idle"
    /\ \E row \in FilterRows :
          /\ paragraphs' = <<row>>
          /\ textsForApi' = FilterTexts(Flat(<<row>>), 0)
          /\ validContentIndices' = FilterIndices(Flat(<<row>>), 0)
    /\ wpc' = "filtered"
    /\ UNCHANGED <<impl, targetLanguage, source, wsent, wres, wout, wrerun>>
    /\ UNCHANGED <<tvars, urlString, bvars>>

FilterNext == FilterFragments

SpecFilter == Init /\ [][FilterNext]_vars

\* ------------------------------------------------------------------------
\* The connection parameters of any endpoint url
\* ------------------------------------------------------------------------
UrlPieces == {"&", "=", "key", "tc", "pbc", "7", "%22"}

\* a base alone, or a base, '?' and up to MaxUrlPieces pieces
Urls ==
    { <<BaseUrl>> }
    \cup { <<BaseUrl, "?">> \o q : q \in UNION { [1..n -> UrlPieces] : n \in 0..MaxUrlPieces } }

ParamsInit == WebInit /\ TextInit /\ urlString \in Urls /\ BackgroundInit

\* src/public/translate/custom/translate.ts: lines 39-112 and 280-330, the
\* requests the two operations build for the entry whose url is urlString
ExtractParams ==
    /\ wpc = "idle"
    /\ tpc = "idle"
    /\ wsent' = <<WebRequest([source |-> "custom1", url |-> UrlParts(urlString)],
                             "en", <<>>)>>
    /\ \E text \in Texts :
          tsent' = <<TextRequest([source |-> "custom1", url |-> UrlParts(urlString)],
                                "en", text)>>
    /\ wpc' = "built"
    /\ tpc' = "built"
    /\ UNCHANGED <<impl, paragraphs, targetLanguage, source, textsForApi,
                   validContentIndices, wres, wout, wrerun>>
    /\ UNCHANGED <<params, from, to, tinflight, tres, tout, urlString, bvars>>

ParamsNext == ExtractParams

SpecParams == ParamsInit /\ [][ParamsNext]_vars

TextNext ==
    \/ TextTranslate
    \/ TextFirstResponse
    \/ TextSecondResponse

SpecText == Init /\ [][TextNext]_vars

\* ------------------------------------------------------------------------
\* One call of either operation
\* ------------------------------------------------------------------------
Next ==
    \/ tpc = "idle" /\ WebNext
    \/ wpc = "idle" /\ TextNext

Spec == Init /\ [][Next]_vars

\* ------------------------------------------------------------------------
\* A web-page call and a single-text call with their awaits interleaved
\* ------------------------------------------------------------------------
\* a page of one row with a sent and an excluded fragment, and a page of two
\* rows with a sent fragment each
ConcurrentPages ==
    { << << <<" ", "a">>, <<" ", ":", " ">> >> >>,
      << << <<" ", "a">> >>, << <<" ", "a">> >> >> }

ConcurrentWebCall ==
    \E p \in ConcurrentPages :
        WebpageCall("reconcile", p, "en", "custom1",
                    FilterTexts(Flat(p), 0), FilterIndices(Flat(p), 0))

ConcurrentTextCall ==
    \E text \in Texts, spl \in {"fr", "xx"} :
        TextCall(text, "", "", "en", spl, "custom1")

ConcurrentNext ==
    \/ ConcurrentWebCall
    \/ WebpageResponse
    \/ ConcurrentTextCall
    \/ TextFirstResponse
    \/ TextSecondResponse

SpecConcurrent == Init /\ [][ConcurrentNext]_vars

\* ------------------------------------------------------------------------
\* The background listener of entry/background/on-message.ts
\* ------------------------------------------------------------------------
SCTS_TRANSLATE == "SCTS_TRANSLATE"

SCTS_AUDIO == "SCTS_AUDIO"

SCTS_DETECT == "SCTS_DETECT"

SCTS_CUSTOM_API_PROXY == "SCTS_CUSTOM_API_PROXY"

SCTS_SEND_TEXT_TO_SEPARATE_WINDOW == "SCTS_SEND_TEXT_TO_SEPARATE_WINDOW"

SCTS_SYNC_SETTINGS_TO_OTHER_BROWSERS == "SCTS_SYNC_SETTINGS_TO_OTHER_BROWSERS"

SCTS_IS_COLLECTED == "SCTS_IS_COLLECTED"

SCTS_ADD_TO_COLLECTION == "SCTS_ADD_TO_COLLECTION"

SCTS_REMOVE_FROM_COLLECTION == "SCTS_REMOVE_FROM_COLLECTION"

SCTS_GET_PAGE_TRANSLATION_CACHE == "SCTS_GET_PAGE_TRANSLATION_CACHE"

SCTS_SET_PAGE_TRANSLATION_CACHE == "SCTS_SET_PAGE_TRANSLATION_CACHE"

SCTS_GET_SPECIFY_SELECTORS == "SCTS_GET_SPECIFY_SELECTORS"

SCTS_GET_ALL_COLLECTED_TEXT == "SCTS_GET_ALL_COLLECTED_TEXT"

\* a type none of the cases names
OTHER_TYPE == "OTHER_TYPE"

OperationTypes == {SCTS_TRANSLATE, SCTS_AUDIO, SCTS_DETECT}

LookupTypes == {SCTS_GET_PAGE_TRANSLATION_CACHE, SCTS_GET_SPECIFY_SELECTORS}

CollectionTypes == {SCTS_IS_COLLECTED, SCTS_ADD_TO_COLLECTION, SCTS_REMOVE_FROM_COLLECTION}

AsyncReplyTypes ==
    OperationTypes \cup LookupTypes
    \cup {SCTS_CUSTOM_API_PROXY, SCTS_IS_COLLECTED, SCTS_GET_ALL_COLLECTED_TEXT}

NoReplyTypes ==
    {SCTS_SEND_TEXT_TO_SEPARATE_WINDOW, SCTS_SYNC_SETTINGS_TO_OTHER_BROWSERS,
     SCTS_ADD_TO_COLLECTION, SCTS_REMOVE_FROM_COLLECTION, SCTS_SET_PAGE_TRANSLATION_CACHE}

MessageTypes == AsyncReplyTypes \cup NoReplyTypes \cup {OTHER_TYPE}

\* payload.text of the collection messages: blank, and two texts that trim
\* to the same key
PayloadTexts == { <<" ">>, <<"a">>, <<" ", "a">> }

\* payload.translations of an add: the translation of one source
PayloadTranslations ==
    { << [source |-> src, translateRequest |-> req] >>
        : src \in {"google", "bing"}, req \in {"r1"} }
    \cup { << [source |-> "google", translateRequest |-> "r2"] >> }

MessagesOf(type) ==
    IF type = SCTS_ADD_TO_COLLECTION
    THEN { [type |-> type, text |-> t, translations |-> tr]
             : t \in PayloadTexts, tr \in PayloadTranslations }
    ELSE IF type \in CollectionTypes
    THEN { [type |-> type, text |-> t, translations |-> <<>>] : t \in PayloadTexts }
    ELSE { [type |-> type, text |-> <<>>, translations |-> <<>>] }

\* the value the listener returns, lines 34-183
ListenerReturns(type) ==
    IF type \in AsyncReplyTypes THEN "true"
    ELSE IF type \in NoReplyTypes THEN "false"
    ELSE "undefined"

\* the promise that is pending when the listener returns
PendingAfter(message) ==
    IF message.type \in OperationTypes THEN "options"
    ELSE IF message.type = SCTS_CUSTOM_API_PROXY THEN "fetch"
    ELSE IF message.type \in {SCTS_IS_COLLECTED, SCTS_ADD_TO_COLLECTION}
    THEN (IF Trim(message.text) # <<>> THEN "get" ELSE "finished")
    ELSE IF message.type = SCTS_REMOVE_FROM_COLLECTION
    THEN (IF Trim(message.text) # <<>> THEN "delete" ELSE "finished")
    ELSE IF message.type \in LookupTypes THEN "lookup"
    ELSE IF message.type = SCTS_GET_ALL_COLLECTED_TEXT THEN "getAllKeys"
    ELSE "finished"

\* sendResponse(value) of message id
SendResponse(id, value) == [bsent EXCEPT ![id] = Append(@, value)]

Finished(id) == [bmsg EXCEPT ![id].pc = "finished"]

\* the listener's run on the id-th message, up to its return
OnMessage(id, message) ==
    /\ bmsg[id].pc = "none"
    /\ \A j \in 1..(id - 1) : bmsg[j].pc # "none"
    /\ bmsg' = [bmsg EXCEPT ![id] =
                   [NoMessage EXCEPT !.type = message.type,
                                     !.text = message.text,
                                     !.translations = message.translations,
                                     !.pc = PendingAfter(message),
                                     !.returned = ListenerReturns(message.type)]]
    /\ bsent' = IF message.type = SCTS_IS_COLLECTED /\ Trim(message.text) = <<>>
                THEN SendResponse(id, [code |-> "EMPTY_TEXT"])
                ELSE bsent
    /\ UNCHANGED collection
    /\ UNCHANGED <<wvars, tvars, urlString>>

\* scOptions.get(...) is fulfilled and translate, audio or detect is called,
\* lines 36-37, 43-44, 50-51
OptionsSettle(id) ==
    /\ bmsg[id].pc = "options"
    /\ bmsg' = [bmsg EXCEPT ![id].pc = "operation"]
    /\ UNCHANGED <<bsent, collection>>
    /\ UNCHANGED <<wvars, tvars, urlString>>

\* what translate, audio and detect of public/request are fulfilled with: a
\* result or an error code
OperationResults == { [suc |-> TRUE, data |-> "data"], [suc |-> FALSE, code |-> "ERROR"] }

\* .then(sendResponse), lines 38, 45, 52
OperationSettle(id) ==
    /\ bmsg[id].pc = "operation"
    /\ \E result \in OperationResults : bsent' = SendResponse(id, result)
    /\ bmsg' = Finished(id)
    /\ UNCHANGED collection
    /\ UNCHANGED <<wvars, tvars, urlString>>

\* what fetch(url, options) is fulfilled with: the status, and whether the
\* body is JSON
FetchResolutions ==
    { [status |-> st, ok |-> (st = 200), json |-> j] : st \in {200, 500}, j \in BOOLEAN }

\* error.message of a rejected fetch
FetchRejections == { "Failed to fetch" }

NullData == [isNull |-> TRUE]

NullError == [isNull |-> TRUE]

\* the then callback up to await response.json(), lines 63-70
FetchResolved(id, resolution) ==
    /\ bmsg' = [bmsg EXCEPT ![id].pc = "json", ![id].fetched = resolution]
    /\ UNCHANGED bsent

\* variant: a rejected fetch is only logged
FetchRejectedLogged(id, message) ==
    /\ bmsg' = Finished(id)
    /\ UNCHANGED bsent

\* the catch callback, lines 83-92
FetchRejected(id, message) ==
    /\ bmsg' = Finished(id)
    /\ bsent' = SendResponse(id, [status |-> 0, ok |-> FALSE, data |-> NullData,
                                  error |-> [isNull |-> FALSE, message |-> message]])

\* fetch(url, options) settles, lines 62-92
FetchSettle(id) ==
    /\ bmsg[id].pc = "fetch"
    /\ \/ \E resolution \in FetchResolutions : FetchResolved(id, resolution)
       \/ \E message \in FetchRejections : FetchRejected(id, message)
    /\ UNCHANGED collection
    /\ UNCHANGED <<wvars, tvars, urlString>>

\* response.json() settles: data is the parsed body, or stays null when the
\* body is not JSON; then sendResponse, lines 67-81
JsonSettle(id) ==
    /\ bmsg[id].pc = "json"
    /\ bsent' = SendResponse(id,
           [status |-> bmsg[id].fetched.status,
            ok |-> bmsg[id].fetched.ok,
            data |-> IF bmsg[id].fetched.json
                     THEN [isNull |-> FALSE, value |-> "body"] ELSE NullData,
            error |-> NullError])
    /\ bmsg' = Finished(id)
    /\ UNCHANGED collection
    /\ UNCHANGED <<wvars, tvars, urlString>>

\* scIndexedDB.get(DB_STORE_COLLECTION, text) of SCTS_IS_COLLECTED settles,
\* lines 116-118
IsCollectedSettle(id) ==
    /\ bmsg[id].pc = "get"
    /\ bmsg[id].type = SCTS_IS_COLLECTED
    /\ \/ bsent' = SendResponse(id, [text |-> bmsg[id].text,
                                     isCollected |-> collection[Trim(bmsg[id].text)].found])
       \/ bsent' = SendResponse(id, [code |-> ""])
    /\ bmsg' = Finished(id)
    /\ UNCHANGED collection
    /\ UNCHANGED <<wvars, tvars, urlString>>

\* scIndexedDB.get(DB_STORE_COLLECTION, text) of SCTS_ADD_TO_COLLECTION reads
\* the entry, or fails and leaves the chain rejected, line 131
AddRead(id) ==
    /\ bmsg[id].pc = "get"
    /\ bmsg[id].type = SCTS_ADD_TO_COLLECTION
    /\ \/ bmsg' = [bmsg EXCEPT ![id].pc = "then",
                               ![id].value = collection[Trim(bmsg[id].text)]]
       \/ bmsg' = Finished(id)
    /\ UNCHANGED <<bsent, collection>>
    /\ UNCHANGED <<wvars, tvars, urlString>>

\* translationMap.set(source, translateRequest): a new key goes to the end, a
\* key that is there keeps its place
MapSet(entries, translation) ==
    IF \E i \in 1..Len(entries) : entries[i].source = translation.source
    THEN [ i \in 1..Len(entries) |->
             IF entries[i].source = translation.source THEN translation ELSE entries[i] ]
    ELSE Append(entries, translation)

\* new Map(list.map(v => [v.source, v.translateRequest])) and its entries
RECURSIVE MapOf(_, _)
MapOf(list, entries) ==
    IF list = <<>> THEN entries
    ELSE MapOf(Tail(list), MapSet(entries, Head(list)))

\* nextTranslations of lines 133-135
NextTranslations(stored, translations) == MapOf(stored \o translations, <<>>)

\* the then callback of the add and the scIndexedDB.add it issues, lines
\* 132-141; date stands for Number(new Date())
AddWrite(id) ==
    /\ bmsg[id].pc = "then"
    /\ collection' =
           [collection EXCEPT ![Trim(bmsg[id].text)] =
               IF bmsg[id].value.found
               THEN [bmsg[id].value EXCEPT
                        !.translations = NextTranslations(bmsg[id].value.translations,
                                                          bmsg[id].translations)]
               ELSE [found |-> TRUE, text |-> Trim(bmsg[id].text), date |-> "now",
                     translations |-> bmsg[id].translations]]
    /\ bmsg' = [bmsg EXCEPT ![id].pc = "written"]
    /\ UNCHANGED bsent
    /\ UNCHANGED <<wvars, tvars, urlString>>

\* scIndexedDB.delete(DB_STORE_COLLECTION, text), line 151
RemoveSettle(id) ==
    /\ bmsg[id].pc = "delete"
    /\ collection' = [collection EXCEPT ![Trim(bmsg[id].text)] = NoEntry]
    /\ bmsg' = Finished(id)
    /\ UNCHANGED bsent
    /\ UNCHANGED <<wvars, tvars, urlString>>

\* getCache(...) or getSpecifySelectors(...) is fulfilled, lines 158, 172
LookupSettle(id) ==
    /\ bmsg[id].pc = "lookup"
    /\ bsent' = SendResponse(id, [data |-> "data"])
    /\ bmsg' = Finished(id)
    /\ UNCHANGED collection
    /\ UNCHANGED <<wvars, tvars, urlString>>

\* scIndexedDB.getAllKeys('collection') settles, line 178: the keys go to
\* sendResponse, or the chain is left rejected
GetAllKeysSettle(id) ==
    /\ bmsg[id].pc = "getAllKeys"
    /\ \/ bsent' = SendResponse(id,
               [keys |-> { key \in CollectionKeys : collection[key].found }])
       \/ UNCHANGED bsent
    /\ bmsg' = Finished(id)
    /\ UNCHANGED collection
    /\ UNCHANGED <<wvars, tvars, urlString>>

ReceiveProxy(id) == \E message \in MessagesOf(SCTS_CUSTOM_API_PROXY) : OnMessage(id, message)

ProxyNext ==
    \E id \in MessageIds :
        \/ ReceiveProxy(id)
        \/ FetchSettle(id)
        \/ JsonSettle(id)

SpecProxy == Init /\ [][ProxyNext]_vars

\* a pending fetch and a pending body read settle
SpecProxyFair ==
    /\ SpecProxy
    /\ \A id \in MessageIds : WF_vars(FetchSettle(id)) /\ WF_vars(JsonSettle(id))

ReceiveAdd(id) == \E message \in MessagesOf(SCTS_ADD_TO_COLLECTION) : OnMessage(id, message)

CollectionNext ==
    \E id \in MessageIds :
        \/ ReceiveAdd(id)
        \/ AddRead(id)
        \/ AddWrite(id)

SpecCollection == Init /\ [][CollectionNext]_vars

ReceiveAny(id) ==
    \E type \in MessageTypes : \E message \in MessagesOf(type) : OnMessage(id, message)

ListenerNext ==
    \E id \in MessageIds :
        \/ ReceiveAny(id)
        \/ OptionsSettle(id)
        \/ OperationSettle(id)
        \/ FetchSettle(id)
        \/ JsonSettle(id)
        \/ IsCollectedSettle(id)
        \/ AddRead(id)
        \/ AddWrite(id)
        \/ RemoveSettle(id)
        \/ LookupSettle(id)
        \/ GetAllKeysSettle(id)

SpecListener == Init /\ [][ListenerNext]_vars

\* ------------------------------------------------------------------------
\* Properties of the web-page translate operation
\* ------------------------------------------------------------------------
\* the response is a successful one that carries a texts list
SuccessfulResponse ==
    /\ wpc = "done"
    /\ wres.kind = "resolve"
    /\ wres.ok
    /\ ~wres.body.isNull
    /\ wres.body.code = "S000000"
    /\ wres.body.hasData
    /\ wres.body.hasTexts

ReturnedBy(variant) == wpc = "done" /\ impl = variant /\ wout.status = "returned"

\* the fragments of a reconciled result, row-major
FlatResult(value) == Flat([g \in 1..Len(value) |-> value[g].translations])

\* the items of the reconciled result are groups {translations}, the items
\* of the flat variant's result are strings
IsGroup(item) == impl = "reconcile"

\* C1: whenever the web-page translate operation returns a result, the
\* result has as many groups as the input and group g has as many fragments
\* as input group g.
C1_ShapePreserved ==
    (wpc = "done" /\ wout.status = "returned") =>
        /\ Len(wout.value) = Len(paragraphs)
        /\ \A g \in 1..Len(paragraphs) :
               /\ IsGroup(wout.value[g])
               /\ Len(wout.value[g].translations) = Len(paragraphs[g])

\* the part of C1 that the reconciling translate of
\* src/public/translate/custom/translate.ts does satisfy
ReconcileShapePreserved ==
    ReturnedBy("reconcile") =>
        /\ Len(wout.value) = Len(paragraphs)
        /\ \A g \in 1..Len(paragraphs) :
               Len(wout.value[g].translations) = Len(paragraphs[g])

\* the response has one item for each sent id and no other item
AnswersEverySentId ==
    /\ Len(wres.body.texts) = Len(textsForApi)
    /\ \A k \in 1..Len(textsForApi) :
          \E j \in 1..Len(wres.body.texts) :
              ~wres.body.texts[j].isNull /\ wres.body.texts[j].id = textsForApi[k].id

\* C2: when the response has N items for the N sent fragments, the output
\* holds at the original position of every sent fragment the translation of
\* the response item that carries the fragment's id, in whatever order the
\* response lists its items.
C2_TranslationById ==
    (ReturnedBy("reconcile") /\ AnswersEverySentId) =>
        \A k \in 1..Len(textsForApi) : \A j \in 1..Len(wres.body.texts) :
            (~wres.body.texts[j].isNull /\ wres.body.texts[j].id = textsForApi[k].id)
            => FlatResult(wout.value)[validContentIndices[k] + 1]
                  = wres.body.texts[j].translation

\* C3: every fragment the filter excluded is in the output at its original
\* position with exactly its original content.
C3_ExcludedUnchanged ==
    ReturnedBy("reconcile") =>
        /\ Len(FlatResult(wout.value)) = Len(Flat(paragraphs))
        /\ \A i \in 0..(Len(Flat(paragraphs)) - 1) :
               ~Includes(validContentIndices, i)
               => FlatResult(wout.value)[i + 1] = Flat(paragraphs)[i + 1]

\* a result was returned for a page with a sent fragment and an excluded
\* fragment whose content is neither empty nor equal to its trimmed form
C3_Witness ==
    /\ ReturnedBy("reconcile")
    /\ Len(textsForApi) > 0
    /\ \E i \in 0..(Len(Flat(paragraphs)) - 1) :
          /\ ~Includes(validContentIndices, i)
          /\ Flat(paragraphs)[i + 1] # <<>>
          /\ Trim(Flat(paragraphs)[i + 1]) # Flat(paragraphs)[i + 1]
          /\ FlatResult(wout.value)[i + 1] = Flat(paragraphs)[i + 1]

\* C4: a successful response whose item count differs from the number of
\* fragments sent makes the call fail with the count-mismatch error, and
\* nothing is returned.
C4_CountMismatchFails ==
    (impl = "reconcile" /\ SuccessfulResponse
        /\ Len(wres.body.texts) # Len(textsForApi)) =>
        /\ wout.status = "thrown"
        /\ wout.error.code = RESULT_ERROR
        /\ wout.error.error
              = <<"count mismatch", Len(wres.body.texts), Len(textsForApi)>>

\* the call failed on a response with more items than were sent, and on
\* none of them null
C4_Witness ==
    /\ impl = "reconcile"
    /\ SuccessfulResponse
    /\ Len(textsForApi) > 0
    /\ Len(wres.body.texts) > Len(textsForApi)
    /\ \A j \in 1..Len(wres.body.texts) : ~wres.body.texts[j].isNull
    /\ wout.status = "thrown"

\* C5: a successful response with as many items as were sent, but without
\* an item for some sent id, makes the call fail with the count-mismatch
\* error instead of returning a result.
C5_MissingIdFails ==
    (impl = "reconcile" /\ SuccessfulResponse
        /\ Len(wres.body.texts) = Len(textsForApi)
        /\ \E k \in 1..Len(textsForApi) :
              \A j \in 1..Len(wres.body.texts) :
                  wres.body.texts[j].isNull \/ wres.body.texts[j].id # textsForApi[k].id)
    => (wout.status = "thrown" /\ wout.error.code = RESULT_ERROR)

\* the call reached the transport
Submitted == impl = "reconcile" /\ wpc \in {"awaiting", "done"} /\ Len(wsent) = 1

\* C12: when the filter excludes every fragment of the page, the batch
\* handed to the transport has an empty texts list, and on the successful
\* reply to it (no items) the call returns an output of the input's shape
\* in which every fragment is its original content.
C12_AllExcluded ==
    (Submitted /\ validContentIndices = <<>>) =>
        /\ wsent[1].body.texts = <<>>
        /\ (SuccessfulResponse /\ wres.body.texts = <<>>) =>
              /\ wout.status = "returned"
              /\ Len(wout.value) = Len(paragraphs)
              /\ \A g \in 1..Len(paragraphs) :
                     wout.value[g].translations = paragraphs[g]

\* a page of two groups, all of whose fragments were excluded and one of
\* which is not empty, was returned unchanged
C12_Witness ==
    /\ Submitted
    /\ validContentIndices = <<>>
    /\ Len(paragraphs) = 2
    /\ \E g \in 1..2 : \E i \in 1..Len(paragraphs[g]) : paragraphs[g][i] # <<>>
    /\ wsent[1].body.texts = <<>>
    /\ wout.status = "returned"
    /\ FlatResult(wout.value) = Flat(paragraphs)

\* the transport failed: the proxy reported an error or the message channel
\* was lost (rejection), or the HTTP status was not ok
TransportFailed ==
    /\ wpc = "done"
    /\ wres.kind # "none"
    /\ (wres.kind = "reject" \/ ~wres.ok)

\* C13: every failure reaches the caller as a typed error, one that carries
\* a code: no error without a code escapes from translate, and no failed
\* response ends in a returned result.
C13_ErrorsTyped ==
    /\ (wpc = "done" /\ wout.status = "thrown") => wout.error.code # ""
    /\ (tpc = "done" /\ tout.status = "thrown") => tout.error.code # ""
    /\ (wpc = "done" /\ wres.kind # "none" /\ ~SuccessfulResponse)
          => wout.status = "thrown"

\* C14: a transport failure is fatal for the call: the call fails, returns
\* no result, and the transport is not invoked again.
C14_TransportFailureFatal ==
    TransportFailed =>
        /\ wout.status = "thrown"
        /\ Len(wsent) = 1
        /\ ~ENABLED WebNext

\* the call failed on a response with a non-ok status whose body was a
\* provider success matching the (empty) batch
C14_Witness ==
    /\ TransportFailed
    /\ impl = "reconcile"
    /\ wres.kind = "resolve"
    /\ ~wres.body.isNull
    /\ wres.body.code = "S000000"
    /\ wres.body.hasData
    /\ wres.body.hasTexts
    /\ Len(wres.body.texts) = Len(textsForApi)
    /\ wout.status = "thrown"

\* the output fragment at original index i is the translation of an item
\* of the response, or the original content of an excluded fragment
FromResponseOrOriginal(i) ==
    IF Includes(validContentIndices, i)
    THEN \E j \in 1..Len(wres.body.texts) :
             /\ ~wres.body.texts[j].isNull
             /\ FlatResult(wout.value)[i + 1] = wres.body.texts[j].translation
    ELSE FlatResult(wout.value)[i + 1] = Flat(paragraphs)[i + 1]

\* C19: the reconciled output has a fragment for every input fragment and
\* each of them is either a translation that the response returned or the
\* original content of a fragment the filter excluded; no placeholder, such
\* as an empty string for a null response item, is written.
C19_NoPlaceholder ==
    ReturnedBy("reconcile") =>
        /\ Len(FlatResult(wout.value)) = Len(Flat(paragraphs))
        /\ \A i \in 0..(Len(Flat(paragraphs)) - 1) : FromResponseOrOriginal(i)

\* the same for the responses that have no null item
NoPlaceholderWithoutNullItem ==
    (ReturnedBy("reconcile")
        /\ \A j \in 1..Len(wres.body.texts) : ~wres.body.texts[j].isNull)
    => \A i \in 0..(Len(Flat(paragraphs)) - 1) : FromResponseOrOriginal(i)

\* a result was returned in which the empty string stands at the position of
\* a sent fragment whose response item is null
NullItemWrittenAsEmpty ==
    /\ ReturnedBy("reconcile")
    /\ \E k \in 1..Len(textsForApi) :
          /\ wres.body.texts[k].isNull
          /\ FlatResult(wout.value)[validContentIndices[k] + 1] = <<>>

FirstSucceeded ==
    /\ Len(tres) >= 1
    /\ tres[1].kind = "resolve"
    /\ tres[1].json
    /\ tres[1].code = "S000000"
    /\ tres[1].hasData

\* C6: the fallback request is issued if and only if the first response
\* succeeded, the caller supplied neither target nor source language, the
\* reply reports equal source and target languages and the two preferred
\* languages differ; it is never issued when a target language was supplied.
C6_FallbackIffCondition ==
    /\ Len(tres) = 0 => Len(tsent) <= 1
    /\ Len(tres) >= 1 =>
          ( Len(tsent) >= 2
            <=> /\ FirstSucceeded
                /\ params.to = ""
                /\ params.from = ""
                /\ tres[1].data.sourceLanguage = tres[1].data.targetLanguage
                /\ params.preferredLanguage # params.secondPreferredLanguage )
    /\ (tpc # "idle" /\ params.to # "") => Len(tsent) <= 1

\* the fallback request has been issued
C6_Witness ==
    /\ tpc = "await2"
    /\ Len(tsent) = 2
    /\ params.to = ""
    /\ tres[1].data.sourceLanguage # ""

\* a first reply with equal languages did not start the fallback because
\* the caller had supplied the target language
C6_WitnessPinned ==
    /\ tpc = "done"
    /\ FirstSucceeded
    /\ params.to # ""
    /\ params.from = ""
    /\ tres[1].data.sourceLanguage = tres[1].data.targetLanguage
    /\ params.preferredLanguage # params.secondPreferredLanguage
    /\ Len(tsent) = 1

\* C7: at most two requests are handed to the transport in one call, and
\* once the second response has arrived the call is over: no request
\* follows it, whatever that response is.
C7_AtMostOneRetry ==
    /\ Len(tsent) <= 2
    /\ Len(tres) <= Len(tsent)
    /\ Len(tres) = 2 => (tpc = "done" /\ tinflight = 0)

\* the second response again reported equal source and target languages
C7_Witness ==
    /\ Len(tres) = 2
    /\ tres[2].kind = "resolve"
    /\ tres[2].json
    /\ tres[2].code = "S000000"
    /\ tres[2].hasData
    /\ tres[2].data.sourceLanguage = tres[2].data.targetLanguage
    /\ tpc = "done"

\* C8: the two requests of a call are never outstanding together, and the
\* second one is issued only after the first response has been received and
\* found to be a success.
C8_Sequential ==
    /\ tinflight <= 1
    /\ tinflight = Len(tsent) - Len(tres)
    /\ Len(tsent) = 2 => FirstSucceeded

\* the second request is outstanding, the first one settled
C8_Witness ==
    /\ Len(tsent) = 2
    /\ Len(tres) = 1
    /\ tinflight = 1

\* C9: the fallback request equals the first request except for
\* targetLanguage, which is langCode[secondPreferredLanguage]: texts,
\* translatorCode, promptBuilderCode, headers and URL are those of the first.
C9_FallbackRequestFrame ==
    Len(tsent) >= 2 =>
        /\ tsent[2].url = tsent[1].url
        /\ tsent[2].method = tsent[1].method
        /\ tsent[2].authorization = tsent[1].authorization
        /\ tsent[2].body.texts = tsent[1].body.texts
        /\ tsent[2].body.translatorCode = tsent[1].body.translatorCode
        /\ tsent[2].body.promptBuilderCode = tsent[1].body.promptBuilderCode
        /\ tsent[2].body.targetLanguage = LangCodeOf(params.secondPreferredLanguage)

\* the fallback request was issued with a target language that is in the
\* table and differs from the first request's
C9_Witness ==
    /\ Len(tsent) = 2
    /\ InLangCode(params.secondPreferredLanguage)
    /\ tsent[2].body.targetLanguage = langCode[params.secondPreferredLanguage]
    /\ tsent[2].body.targetLanguage # tsent[1].body.targetLanguage
    /\ tsent[1].body.translatorCode.value # <<>>

\* C10: a result returned after the fallback is built from the second
\* reply only: its translation and source language are the second reply's
\* and its target language is the secondary preferred language.
C10_ResultFromSecondReply ==
    (tpc = "done" /\ Len(tsent) = 2 /\ tout.status = "returned") =>
        /\ tres[2].data.texts # <<>>
        /\ tout.value.result = << tres[2].data.texts[1].translation >>
        /\ tout.value.from = tres[2].data.sourceLanguage
        /\ tout.value.to = params.secondPreferredLanguage
        /\ tout.value.text = params.text

\* a result was returned after the fallback, and the two replies differ in
\* translation and in source language
C10_Witness ==
    /\ tpc = "done"
    /\ Len(tsent) = 2
    /\ tout.status = "returned"
    /\ tres[1].data.texts # <<>>
    /\ tres[1].data.texts[1].translation # <<>>
    /\ tres[1].data.texts[1].translation # tres[2].data.texts[1].translation
    /\ tres[1].data.sourceLanguage # ""
    /\ tres[1].data.sourceLanguage # tres[2].data.sourceLanguage

\* ------------------------------------------------------------------------
\* Properties of the fragment filter
\* ------------------------------------------------------------------------
\* the rule as the specification states it
ExcludedByRule(content) ==
    \/ Trim(content) = <<>>
    \/ /\ Len(Trim(content)) < 3
       /\ \A i \in 1..Len(Trim(content)) :
              Trim(content)[i] \notin (Letters \cup Ideographs)

\* the rule as the regular expression of line 343 decides it
ExcludedByRegExp(content) ==
    \/ Trim(content) = <<>>
    \/ /\ Len(Trim(content)) < 3
       /\ \A i \in 1..Len(Trim(content)) : Trim(content)[i] \notin LetterOrCJK

\* C11: a fragment is excluded from the batch exactly when, trimmed, it is
\* empty, or is shorter than 3 characters and contains no letter and no
\* ideograph; every other fragment is sent, whatever its position and its
\* neighbours.
C11_FilterRule ==
    wpc = "filtered" =>
        \A i \in 0..(Len(Flat(paragraphs)) - 1) :
            ~Includes(validContentIndices, i)
            <=> ExcludedByRule(Flat(paragraphs)[i + 1])

\* what the filter does decide: C11 with "letter" read as a-z, A-Z and
\* "ideograph" as U+4E00..U+9FA5
FilterRuleOfRegExp ==
    wpc = "filtered" =>
        /\ \A i \in 0..(Len(Flat(paragraphs)) - 1) :
               ~Includes(validContentIndices, i)
               <=> ExcludedByRegExp(Flat(paragraphs)[i + 1])
        /\ Len(textsForApi) = Len(validContentIndices)

\* ------------------------------------------------------------------------
\* Properties of both operations
\* ------------------------------------------------------------------------
\* the web-page call ended on a decoded body with a non-success code
WebProviderFailure ==
    /\ wpc = "done"
    /\ wres.kind = "resolve"
    /\ wres.ok
    /\ ~wres.body.isNull
    /\ wres.body.code # "S000000"

\* the single-text call ended on a decoded body with a non-success code
TextProviderFailure ==
    /\ tpc = "done"
    /\ Len(tres) >= 1
    /\ tres[Len(tres)].kind = "resolve"
    /\ tres[Len(tres)].json
    /\ tres[Len(tres)].code # "S000000"

ResolvedFrom == IF params.from # "" THEN params.from ELSE "auto"

ResolvedTo ==
    IF params.to # "" THEN params.to
    ELSE IF ResolvedFrom = params.preferredLanguage
         THEN params.secondPreferredLanguage
         ELSE params.preferredLanguage

\* a language of the call is outside the supported table
WebUnsupported == wpc = "done" /\ targetLanguage \notin DOMAIN langCode

TextUnsupported ==
    /\ tpc = "done"
    /\ (ResolvedFrom \notin DOMAIN langCode \/ ResolvedTo \notin DOMAIN langCode)

C17_SourceErrorFails ==
    /\ (wpc # "idle" /\ \A c \in CustomSourceList : c.source # source) =>
          /\ wpc = "done"
          /\ wout = Thrown(getError(SOURCE_ERROR, <<>>))
          /\ wsent = <<>>
    /\ (tpc # "idle" /\ \A c \in CustomSourceList : c.source # params.source) =>
          /\ tpc = "done"
          /\ tout = Thrown(getError(SOURCE_ERROR, <<>>))
          /\ tsent = <<>>

\* a web-page call for an unconfigured source and a non-empty page failed
C17_Witness ==
    /\ wpc = "done"
    /\ \A c \in CustomSourceList : c.source # source
    /\ paragraphs # <<>>
    /\ targetLanguage \in DOMAIN langCode
    /\ wout.status = "thrown"

\* ------------------------------------------------------------------------
\* Properties of the connection parameters
\* ------------------------------------------------------------------------
\* no pair of the url's query string assigns the key
Absent(key) ==
    \A i \in 1..Len(UrlParts(urlString).query) : UrlParts(urlString).query[i][1] # key

RequestsBuilt == wpc = "built" /\ tpc = "built"

\* C18: when tc is missing from the endpoint url's query string (or there is
\* no query string) the request of the web-page operation and the request of
\* the single-text operation both carry translatorCode = 0 as an integer, and
\* when pbc is missing both carry promptBuilderCode = 0 as an integer
C18_AbsentCodesAreZero ==
    RequestsBuilt =>
        /\ Absent("tc") =>
              /\ wsent[1].body.translatorCode = JsonNumber(0)
              /\ tsent[1].body.translatorCode = JsonNumber(0)
        /\ Absent("pbc") =>
              /\ wsent[1].body.promptBuilderCode = JsonNumber(0)
              /\ tsent[1].body.promptBuilderCode = JsonNumber(0)

\* the web-page operation alone defaults both codes to the integer 0, and
\* the single-text operation defaults promptBuilderCode to it
AbsentCodesAreZeroWhereParsed ==
    RequestsBuilt =>
        /\ Absent("tc") => wsent[1].body.translatorCode = JsonNumber(0)
        /\ Absent("pbc") =>
              /\ wsent[1].body.promptBuilderCode = JsonNumber(0)
              /\ tsent[1].body.promptBuilderCode = JsonNumber(0)

\* a url without tc: the single-text request carries the empty string
AbsentTranslatorCodeIsEmptyString ==
    /\ RequestsBuilt
    /\ Absent("tc")
    /\ tsent[1].body.translatorCode = JsonString(<<>>)

\* ------------------------------------------------------------------------
\* Properties of the submitted requests
\* ------------------------------------------------------------------------
\* the provider codes of the languages in the supported language table
ProviderCodes == { langCode[l] : l \in DOMAIN langCode }

\* C22: every request handed to the transport, the fallback re-request
\* included, carries as targetLanguage the provider code of a language of
\* the supported language table, never an undefined value.
C22_TargetLanguageSupported ==
    /\ \A i \in 1..Len(wsent) : wsent[i].body.targetLanguage \in ProviderCodes
    /\ \A i \in 1..Len(tsent) : tsent[i].body.targetLanguage \in ProviderCodes

\* the same for the request of the web-page operation and the first request
\* of the single-text operation
FirstTargetLanguageSupported ==
    /\ \A i \in 1..Len(wsent) : wsent[i].body.targetLanguage \in ProviderCodes
    /\ tsent # <<>> => tsent[1].body.targetLanguage \in ProviderCodes

\* a fallback re-request went out for a second preferred language that is
\* not in the table
FallbackToUnsupportedLanguage ==
    /\ Len(tsent) = 2
    /\ ~InLangCode(params.secondPreferredLanguage)
    /\ tsent[2].body.targetLanguage = "undefined"

\* ------------------------------------------------------------------------
\* Properties of the batch
\* ------------------------------------------------------------------------
\* the flattened original indices of the fragments the filter does not
\* exclude
SentIndices ==
    { i \in 0..(Len(Flat(paragraphs)) - 1) : ~ExcludedByRegExp(Flat(paragraphs)[i + 1]) }

\* the k-th of them in ascending order
KthSentIndex(k) ==
    CHOOSE i \in SentIndices : Cardinality({ j \in SentIndices : j < i }) = k - 1

\* C25: the batch handed to the transport has one entry for each fragment
\* the filter does not exclude, in ascending order of the fragments'
\* flattened original indices; the id of an entry is "0-<index>" of its
\* fragment and no two entries have the same id.
C25_BatchOrderedWithDistinctIds ==
    Submitted =>
        LET batch == wsent[1].body.texts IN
        /\ Len(batch) = Cardinality(SentIndices)
        /\ \A k \in 1..Len(batch) :
               /\ batch[k].id = "0-" \o ToString(KthSentIndex(k))
               /\ batch[k].content = Trim(Flat(paragraphs)[KthSentIndex(k) + 1])
        /\ \A k \in 1..Len(batch) : \A m \in 1..Len(batch) :
               k # m => batch[k].id # batch[m].id

\* a batch of two entries went out whose fragments have an excluded
\* fragment between them
C25_Witness ==
    /\ Submitted
    /\ Len(wsent[1].body.texts) = 2
    /\ wsent[1].body.texts[1].id = "0-0"
    /\ wsent[1].body.texts[2].id = "0-2"
    /\ ExcludedByRegExp(Flat(paragraphs)[2])

\* ------------------------------------------------------------------------
\* Properties of interleaved calls
\* ------------------------------------------------------------------------
\* what the single-text call ends with on a first reply that starts no
\* second request, from the call's own arguments
FirstOutcomeAlone ==
    IF tres[1].kind = "reject" THEN Thrown(tres[1].error)
    ELSE TextCatch(
        IF ~tres[1].json THEN Thrown(PlainError(<<"SyntaxError">>))
        ELSE IF ProviderFailed(tres[1])
        THEN Thrown(ProviderError(tres[1], "non-success status code"))
        ELSE BuildResult(tres[1].data, ResolvedTo, params.text))

\* the web-page call's batch, request and outcome are those of its own
\* PageText and its own response
WebCallAsAlone ==
    /\ wsent # <<>> =>
          /\ textsForApi = FilterTexts(Flat(paragraphs), 0)
          /\ validContentIndices = FilterIndices(Flat(paragraphs), 0)
          /\ Len(wsent) = 1
          /\ wsent[1].body.texts = textsForApi
          /\ wsent[1].body.targetLanguage = LangCodeOf(targetLanguage)
    /\ (wpc = "done" /\ wres.kind = "resolve") =>
          wout = Catch(ReconcileBody(wres, paragraphs,
                                     FilterTexts(Flat(paragraphs), 0),
                                     FilterIndices(Flat(paragraphs), 0), TRUE))

\* the single-text call's requests and outcome are those of its own
\* arguments and its own replies
TextCallAsAlone ==
    /\ tsent # <<>> =>
          /\ tsent[1].body.texts = << [id |-> "0-0", content |-> params.text] >>
          /\ tsent[1].body.targetLanguage = LangCodeOf(ResolvedTo)
    /\ Len(tsent) = 2 =>
          tsent[2] = [tsent[1] EXCEPT
                         !.body.targetLanguage = LangCodeOf(params.secondPreferredLanguage)]
    /\ (tpc = "done" /\ Len(tres) = 1) => tout = FirstOutcomeAlone
    /\ (tpc = "done" /\ Len(tres) = 2) =>
          tout = SecondOutcome(tres[2], tres[1].data,
                               params.secondPreferredLanguage, params.text)

BothReturned ==
    /\ wpc = "done" /\ wout.status = "returned"
    /\ tpc = "done" /\ tout.status = "returned" /\ Len(tres) = 2

\* ------------------------------------------------------------------------
\* Properties of the background listener
\* ------------------------------------------------------------------------
\* the reply a proxy message must get for the way its fetch settled
ProxyReplyExpected(id, reply) ==
    IF bmsg[id].fetched \in FetchResolutions
    THEN reply = [status |-> bmsg[id].fetched.status,
                  ok |-> bmsg[id].fetched.ok,
                  data |-> IF bmsg[id].fetched.json
                           THEN [isNull |-> FALSE, value |-> "body"] ELSE NullData,
                  error |-> NullError]
    ELSE /\ reply.status = 0
         /\ reply.ok = FALSE
         /\ reply.data = NullData
         /\ ~reply.error.isNull
         /\ reply.error.message \in FetchRejections

\* the listener returned true for a proxy message, sendResponse was called
\* at most once, and once the promise chain has ended it was called once,
\* with the reply of the fetch's outcome
ProxyRepliedAtMostOnce ==
    \A id \in MessageIds :
        bmsg[id].type = SCTS_CUSTOM_API_PROXY =>
            /\ bmsg[id].returned = "true"
            /\ Len(bsent[id]) <= 1
            /\ bmsg[id].pc = "finished" =>
                  /\ Len(bsent[id]) = 1
                  /\ ProxyReplyExpected(id, bsent[id][1])

\* C23: for every custom-API proxy message the listener returns true and
\* sendResponse is called exactly once, later: with {status, ok, data,
\* error: null} when the fetch resolves (data null for a body that is not
\* JSON), with {status: 0, ok: false, data: null, error: message} when it
\* rejects; never twice, and no message stays unanswered.
C23_ProxyRepliesExactlyOnce ==
    /\ []ProxyRepliedAtMostOnce
    /\ \A id \in MessageIds :
           (bmsg[id].type = SCTS_CUSTOM_API_PROXY) ~> (Len(bsent[id]) = 1)

\* one proxy message was answered for a resolved fetch whose body is not
\* JSON, another one for a rejected fetch
C23_Witness ==
    \E id \in MessageIds : \E other \in MessageIds :
        /\ bmsg[id].pc = "finished"
        /\ bmsg[id].type = SCTS_CUSTOM_API_PROXY
        /\ Len(bsent[id]) = 1
        /\ bsent[id][1].error.isNull
        /\ bsent[id][1].data.isNull
        /\ bmsg[other].pc = "finished"
        /\ Len(bsent[other]) = 1
        /\ ~bsent[other][1].error.isNull

\* sendResponse of message id was called at most once, and once when the
\* promise chain of the message has ended
RepliedOnce(id) ==
    /\ Len(bsent[id]) <= 1
    /\ bmsg[id].pc = "finished" => Len(bsent[id]) = 1

\* C24: for every message for which the listener returned true,
\* sendResponse is called exactly once by the time the handling of the
\* message has ended, also when the underlying operation failed.
C24_AsyncRepliesExactlyOnce ==
    \A id \in MessageIds : bmsg[id].returned = "true" => RepliedOnce(id)

\* the same for every type but SCTS_GET_ALL_COLLECTED_TEXT
AsyncRepliesOnceButAllKeys ==
    \A id \in MessageIds :
        (bmsg[id].returned = "true" /\ bmsg[id].type # SCTS_GET_ALL_COLLECTED_TEXT)
        => RepliedOnce(id)

\* the handling of a SCTS_GET_ALL_COLLECTED_TEXT message has ended without a
\* call of sendResponse
AllKeysUnanswered ==
    \E id \in MessageIds :
        /\ bmsg[id].type = SCTS_GET_ALL_COLLECTED_TEXT
        /\ bmsg[id].returned = "true"
        /\ bmsg[id].pc = "finished"
        /\ bsent[id] = <<>>

\* the sources of a list of translations
SourcesOf(translations) == { translations[i].source : i \in 1..Len(translations) }

\* every message is an add for the key whose get and add both went through
AllAddsWritten(key) ==
    \A id \in MessageIds :
        /\ bmsg[id].type = SCTS_ADD_TO_COLLECTION
        /\ bmsg[id].pc = "written"
        /\ Trim(bmsg[id].text) = key

\* C26: after any interleaving of add-to-collection messages for the same
\* trimmed text, the stored entry has one translation per source and has
\* every source that one of the messages supplied.
C26_NoLostAdd ==
    \A key \in CollectionKeys :
        AllAddsWritten(key) =>
            /\ collection[key].found
            /\ \A i \in 1..Len(collection[key].translations) :
                 \A j \in 1..Len(collection[key].translations) :
                   i # j => collection[key].translations[i].source
                              # collection[key].translations[j].source
            /\ \A id \in MessageIds :
                 SourcesOf(bmsg[id].translations)
                     \subseteq SourcesOf(collection[key].translations)

\* the part that holds: a stored entry has no two translations of one source
OneTranslationPerSource ==
    \A key \in CollectionKeys :
        collection[key].found =>
            \A i \in 1..Len(collection[key].translations) :
              \A j \in 1..Len(collection[key].translations) :
                i # j => collection[key].translations[i].source
                           # collection[key].translations[j].source

\* two adds for one text with different sources both read the store before
\* either wrote, and the entry holds the source of one of them only
AddLost ==
    \E key \in CollectionKeys :
        /\ AllAddsWritten(key)
        /\ \A id \in MessageIds : ~bmsg[id].value.found
        /\ \E id \in MessageIds :
              ~(SourcesOf(bmsg[id].translations)
                    \subseteq SourcesOf(collection[key].translations))

====
